---------------------------- MODULE Spec2Model ----------------------------
(***************************************************************************)
(* The commit log core of crates/commitlog: the commit frame codec, the    *)
(* transaction iterator and Metadata (commit.rs); the buffered segment     *)
(* writer's fsync and segment_len, the read_exact helper and the offset    *)
(* range selection (stream/common.rs).                                     *)
(*                                                                         *)
(* Integer widths are scaled: a byte has ByteBits bits instead of 8, and   *)
(* every multi-byte integer keeps its number of bytes, so u64 has          *)
(* 8 * ByteBits bits, u16 has 2 * ByteBits, u32 has 4 * ByteBits.  The     *)
(* frame layout (14 header bytes, payload, 4 CRC bytes) is the source's.   *)
(***************************************************************************)
EXTENDS Integers, Sequences, FiniteSets, TLC

VARIABLES
  log,        \* what was appended to the segment, in order: commits and zero fill
  seg,        \* the bytes of the segment (the writer's sink, the reader's source)
  pos,        \* the reader's position in seg (bytes consumed so far)
  calls,      \* the decode calls made on the reader so far, in order
  torn,       \* what a crash or a corruption did to seg: [kind, commit, at, mask]
  bufw,       \* tokio BufWriter: the bytes held in its coalescing buffer
  file,       \* the bytes the inner tokio File has been handed (OS page cache)
  disk,       \* the bytes on stable storage
  accepted,   \* every byte the buffered writer has accepted, in order
  lastOp,     \* the last operation completed on the buffered writer
  cur,        \* the cursor (stream position) of the inner tokio File
  lenq,       \* the last segment_len() call: its old_pos and the len it returned
  rb,         \* the RangeBounds given to from_range_bounds: [start, end]
  range,      \* what from_range_bounds(rb) returned (or that it panicked)
  iter,       \* the iterator of into_transactions: commit, decoder, cursor, items
  rd          \* the last stream read_exact call: source, buffer length, result

vars == <<log, seg, pos, calls, torn, bufw, file, disk, accepted, lastOp, cur, lenq, rb, range, iter, rd>>

codecVars == <<log, seg, pos, calls, torn>>
syncVars == <<bufw, file, disk, accepted, lastOp, cur, lenq>>
rangeVars == <<rb, range>>
iterVars == <<iter>>
readVars == <<rd>>

---------------------------------------------------------------------------
(* Integer widths *)

\* Bits in one byte (u8), scaled down from 8.
ByteBits == 2

ByteMod == 2 ^ ByteBits

Byte == 0 .. (ByteMod - 1)

\* size_of::<u64>(), size_of::<u16>(), size_of::<u32>() in bytes.
U64Bytes == 8

U16Bytes == 2

U32Bytes == 4

U64Mod == ByteMod ^ U64Bytes

U16Mod == ByteMod ^ U16Bytes

U32Mod == ByteMod ^ U32Bytes

U64Max == U64Mod - 1

\* Header::LEN
LEN == U64Bytes + U16Bytes + U32Bytes

\* Commit::FRAMING_LEN
FRAMING_LEN == LEN + U32Bytes

\* x.to_le_bytes() for an integer of k bytes
to_le_bytes(x, k) == [i \in 1 .. k |-> (x \div (ByteMod ^ (i - 1))) % ByteMod]

\* uN::from_le_bytes(bs), also buf.get_u64 / get_u16 / get_u32 of sats::buffer
RECURSIVE from_le_bytes(_)
from_le_bytes(bs) ==
  IF bs = <<>> THEN 0 ELSE Head(bs) + ByteMod * from_le_bytes(Tail(bs))

\* `x as u32`: the cast keeps the low 4 bytes
as_u32(x) == x % U32Mod

RECURSIVE Xor(_, _)
Xor(a, b) ==
  IF a = 0 THEN b
  ELSE IF b = 0 THEN a
  ELSE ((a + b) % 2) + 2 * Xor(a \div 2, b \div 2)

Zeros(k) == [i \in 1 .. k |-> 0]

---------------------------------------------------------------------------
(* crc32c: a reflected CRC of U32Bytes bytes, initial value and final xor  *)
(* all ones, as CRC-32C is; the polynomial is the reflected CRC-8 one      *)
(* (x^8 + x^5 + x^4 + 1) at the scaled width.                              *)

CrcMod == U32Mod

CrcPoly == 140

RECURSIVE CrcShift(_, _)
CrcShift(c, k) ==
  IF k = 0 THEN c
  ELSE CrcShift(IF c % 2 = 1 THEN Xor(c \div 2, CrcPoly) ELSE c \div 2, k - 1)

\* One byte b through the register c, for every register and byte (the
\* byte-wise table of a table-driven CRC)
CrcTable == [c \in 0 .. (CrcMod - 1) |-> [b \in Byte |-> CrcShift(Xor(c, b), ByteBits)]]

CrcByte(c, b) == CrcTable[c][b]

\* crc32c_append(crc, data) on the raw register: the bytes of bs go through
\* the register one after the other (the first half, then the second; the
\* test on c has TLC evaluate the register before it goes on)
RECURSIVE CrcUpdate(_, _)
CrcUpdate(c, bs) ==
  IF c \notin Nat \/ bs = <<>> THEN c
  ELSE IF Len(bs) = 1 THEN CrcByte(c, bs[1])
  ELSE CrcUpdate(CrcUpdate(c, SubSeq(bs, 1, Len(bs) \div 2)),
                 SubSeq(bs, Len(bs) \div 2 + 1, Len(bs)))

\* Crc32cWriter::crc32c / Crc32cReader::crc32c after the bytes bs went through
crc32c(bs) == Xor(CrcUpdate(CrcMod - 1, bs), CrcMod - 1)

---------------------------------------------------------------------------
(* Commit and its frame *)

Commit(m, n, recs) == [min_tx_offset |-> m, n |-> n, records |-> recs]

\* Commit::default()
NoCommit == Commit(0, 0, <<>>)

NoHeader == [min_tx_offset |-> 0, n |-> 0, len |-> 0]

\* Commit::encoded_len that leaves the checksum out
encoded_len_NoCrc(c) == LEN + Len(c.records)

\* Commit::encoded_len
encoded_len(c) == FRAMING_LEN + Len(c.records)

\* The header fields as Commit::write lays them out: min_tx_offset, n, len
Header_bytes(m, n, len) ==
  to_le_bytes(m, U64Bytes) \o to_le_bytes(n, U16Bytes) \o to_le_bytes(len, U32Bytes)

\* The bytes Commit::write passes through the Crc32cWriter: header, then records
Commit_body(c) ==
  Header_bytes(c.min_tx_offset, c.n, as_u32(Len(c.records))) \o c.records

\* Commit::write with the checksum taken over the records alone
Commit_write_RecordsCrc(c) ==
  Commit_body(c) \o to_le_bytes(crc32c(c.records), U32Bytes)

\* Commit::write: the bytes appended to the sink
Commit_write(c) ==
  Commit_body(c) \o to_le_bytes(crc32c(Commit_body(c)), U32Bytes)

---------------------------------------------------------------------------
(* Reading *)

\* Read::read_exact on a reader over s at position p, for k bytes.  At EOF
\* before k bytes the bytes that were there are consumed and the error kind
\* is UnexpectedEof.  A reader over memory has no other error.
read_exact(s, p, k) ==
  IF p + k <= Len(s)
    THEN [kind |-> "Ok", bytes |-> SubSeq(s, p + 1, p + k), pos |-> p + k]
    ELSE [kind |-> "UnexpectedEof", bytes |-> SubSeq(s, p + 1, Len(s)), pos |-> Len(s)]

\* Header::decode without the all-zero test
Header_decode_NoZeroTest(s, p) ==
  LET r == read_exact(s, p, LEN) IN
  IF r.kind # "Ok"
    THEN IF r.kind = "UnexpectedEof"
           THEN [kind |-> "None", hdr |-> NoHeader, err |-> "", pos |-> r.pos]
           ELSE [kind |-> "Err", hdr |-> NoHeader, err |-> r.kind, pos |-> r.pos]
    ELSE [kind |-> "Some",
          hdr |-> [min_tx_offset |-> from_le_bytes(SubSeq(r.bytes, 1, U64Bytes)),
                   n |-> from_le_bytes(SubSeq(r.bytes, U64Bytes + 1, U64Bytes + U16Bytes)),
                   len |-> from_le_bytes(SubSeq(r.bytes, U64Bytes + U16Bytes + 1, LEN))],
          err |-> "", pos |-> r.pos]

\* Header::decode that reports a header cut short by EOF as an error
Header_decode_HardTruncation(s, p) ==
  LET r == read_exact(s, p, LEN) IN
  IF r.kind # "Ok"
    THEN IF r.kind = "UnexpectedEof" /\ r.bytes = <<>>
           THEN [kind |-> "None", hdr |-> NoHeader, err |-> "", pos |-> r.pos]
           ELSE [kind |-> "Err", hdr |-> NoHeader, err |-> r.kind, pos |-> r.pos]
    ELSE IF r.bytes = Zeros(LEN)
           THEN [kind |-> "None", hdr |-> NoHeader, err |-> "", pos |-> r.pos]
           ELSE [kind |-> "Some",
                 hdr |-> [min_tx_offset |-> from_le_bytes(SubSeq(r.bytes, 1, U64Bytes)),
                          n |-> from_le_bytes(SubSeq(r.bytes, U64Bytes + 1, U64Bytes + U16Bytes)),
                          len |-> from_le_bytes(SubSeq(r.bytes, U64Bytes + U16Bytes + 1, LEN))],
                 err |-> "", pos |-> r.pos]

\* Header::decode
Header_decode(s, p) ==
  LET r == read_exact(s, p, LEN) IN
  IF r.kind # "Ok"
    THEN IF r.kind = "UnexpectedEof"
           THEN [kind |-> "None", hdr |-> NoHeader, err |-> "", pos |-> r.pos]
           ELSE [kind |-> "Err", hdr |-> NoHeader, err |-> r.kind, pos |-> r.pos]
    ELSE IF r.bytes = Zeros(LEN)
           THEN [kind |-> "None", hdr |-> NoHeader, err |-> "", pos |-> r.pos]
           ELSE [kind |-> "Some",
                 hdr |-> [min_tx_offset |-> from_le_bytes(SubSeq(r.bytes, 1, U64Bytes)),
                          n |-> from_le_bytes(SubSeq(r.bytes, U64Bytes + 1, U64Bytes + U16Bytes)),
                          len |-> from_le_bytes(SubSeq(r.bytes, U64Bytes + U16Bytes + 1, LEN))],
                 err |-> "", pos |-> r.pos]

\* decode_u32 that leaves the four bytes in the reader
decode_u32_Peek(s, p) ==
  LET r == read_exact(s, p, U32Bytes) IN
  IF r.kind # "Ok"
    THEN [kind |-> "Err", val |-> 0, err |-> r.kind, pos |-> r.pos]
    ELSE [kind |-> "Ok", val |-> from_le_bytes(r.bytes), err |-> "", pos |-> p]

\* decode_u32
decode_u32(s, p) ==
  LET r == read_exact(s, p, U32Bytes) IN
  IF r.kind # "Ok"
    THEN [kind |-> "Err", val |-> 0, err |-> r.kind, pos |-> r.pos]
    ELSE [kind |-> "Ok", val |-> from_le_bytes(r.bytes), err |-> "", pos |-> r.pos]

\* Commit::decode that reads the trailing checksum and does not compare it
Commit_decode_NoCheck(s, p) ==
  LET h == Header_decode(s, p) IN
  IF h.kind = "Err" THEN [kind |-> "Err", commit |-> NoCommit, err |-> h.err, pos |-> h.pos]
  ELSE IF h.kind = "None" THEN [kind |-> "None", commit |-> NoCommit, err |-> "", pos |-> h.pos]
  ELSE
    LET recs == read_exact(s, h.pos, h.hdr.len) IN
    IF recs.kind # "Ok"
      THEN [kind |-> "Err", commit |-> NoCommit, err |-> recs.kind, pos |-> recs.pos]
      ELSE
        LET crc == decode_u32(s, recs.pos) IN
        IF crc.kind # "Ok"
          THEN [kind |-> "Err", commit |-> NoCommit, err |-> crc.err, pos |-> crc.pos]
        ELSE [kind |-> "Some",
              commit |-> Commit(h.hdr.min_tx_offset, h.hdr.n, recs.bytes),
              err |-> "", pos |-> crc.pos]

\* Commit::decode that takes EOF inside the records or the checksum for the
\* end of the log, as Header::decode does for the header
Commit_decode_EofIsNone(s, p) ==
  LET h == Header_decode(s, p) IN
  IF h.kind = "Err" THEN [kind |-> "Err", commit |-> NoCommit, err |-> h.err, pos |-> h.pos]
  ELSE IF h.kind = "None" THEN [kind |-> "None", commit |-> NoCommit, err |-> "", pos |-> h.pos]
  ELSE
    LET recs == read_exact(s, h.pos, h.hdr.len) IN
    IF recs.kind # "Ok"
      THEN [kind |-> "None", commit |-> NoCommit, err |-> "", pos |-> recs.pos]
      ELSE
        LET chk == crc32c(SubSeq(s, p + 1, recs.pos))
            crc == decode_u32(s, recs.pos)
        IN
        IF crc.kind # "Ok"
          THEN [kind |-> "None", commit |-> NoCommit, err |-> "", pos |-> crc.pos]
        ELSE IF chk # crc.val
          THEN [kind |-> "Err", commit |-> NoCommit, err |-> "ChecksumMismatch", pos |-> crc.pos]
        ELSE [kind |-> "Some",
              commit |-> Commit(h.hdr.min_tx_offset, h.hdr.n, recs.bytes),
              err |-> "", pos |-> crc.pos]

\* Commit::decode
Commit_decode(s, p) ==
  LET h == Header_decode(s, p) IN
  IF h.kind = "Err" THEN [kind |-> "Err", commit |-> NoCommit, err |-> h.err, pos |-> h.pos]
  ELSE IF h.kind = "None" THEN [kind |-> "None", commit |-> NoCommit, err |-> "", pos |-> h.pos]
  ELSE
    LET recs == read_exact(s, h.pos, h.hdr.len) IN
    IF recs.kind # "Ok"
      THEN [kind |-> "Err", commit |-> NoCommit, err |-> recs.kind, pos |-> recs.pos]
      ELSE
        LET chk == crc32c(SubSeq(s, p + 1, recs.pos))
            crc == decode_u32(s, recs.pos)
        IN
        IF crc.kind # "Ok"
          THEN [kind |-> "Err", commit |-> NoCommit, err |-> crc.err, pos |-> crc.pos]
        ELSE IF chk # crc.val
          THEN [kind |-> "Err", commit |-> NoCommit, err |-> "ChecksumMismatch", pos |-> crc.pos]
        ELSE [kind |-> "Some",
              commit |-> Commit(h.hdr.min_tx_offset, h.hdr.n, recs.bytes),
              err |-> "", pos |-> crc.pos]

---------------------------------------------------------------------------
(* Bounds and inputs *)

\* Longest records buffer of a commit handed to Commit::write
MaxLen == 1

\* Capacity of the segment in bytes
MaxSegLen == 54

\* Most bytes of zero fill appended in one step
MaxFill == 15

RECURSIVE SeqsUpTo(_, _)
SeqsUpTo(S, k) ==
  IF k = 0 THEN {<<>>}
  ELSE SeqsUpTo(S, k - 1) \cup [1 .. k -> S]

Offsets == {0, 7}

Counts == {0, 3}

Commits == {Commit(m, n, r) : m \in Offsets, n \in Counts, r \in SeqsUpTo(Byte, MaxLen)}

\* A commit the data model allows: at least one record, and a records
\* buffer whose length fits the header's len field.
Valid(c) == c.n >= 1 /\ Len(c.records) < U32Mod

---------------------------------------------------------------------------
(* The segment: a writer appends frames, a reader scans them *)

NoTear == [kind |-> "none", commit |-> NoCommit, at |-> 0, mask |-> 0]

CommitItem(c) == [kind |-> "commit", commit |-> c, zeros |-> 0]

ZeroItem(k) == [kind |-> "zeros", commit |-> NoCommit, zeros |-> k]

CodecInit ==
  /\ log = <<>>
  /\ seg = <<>>
  /\ pos = 0
  /\ calls = <<>>
  /\ torn = NoTear

SyncIdle ==
  /\ bufw = <<>>
  /\ file = <<>>
  /\ disk = <<>>
  /\ accepted = <<>>
  /\ lastOp = "new"
  /\ cur = 0
  /\ lenq = [old_pos |-> 0, len |-> 0]

RangeIdle ==
  /\ rb = [start |-> [kind |-> "Unbounded", val |-> 0], end |-> [kind |-> "Unbounded", val |-> 0]]
  /\ range = [kind |-> "none", start |-> 0, end |-> [some |-> FALSE, val |-> 0]]

\* The segment is still being written: no crash or corruption has happened
\* and the reader has not started
Writable == calls = <<>> /\ torn.kind = "none"

\* commit.write(&mut seg): the frame is appended to the segment
Write(c) ==
  /\ Writable
  /\ Len(seg) + encoded_len(c) <= MaxSegLen
  /\ seg' = seg \o Commit_write(c)
  /\ log' = Append(log, CommitItem(c))
  /\ UNCHANGED <<pos, calls, torn>>
  /\ UNCHANGED syncVars
  /\ UNCHANGED rangeVars
  /\ UNCHANGED <<iterVars, readVars>>

\* Pre-allocation: k zero bytes follow what was written
ZeroFill(k) ==
  /\ Writable
  /\ Len(seg) + k <= MaxSegLen
  /\ (log # <<>> => log[Len(log)].kind # "zeros")
  /\ seg' = seg \o Zeros(k)
  /\ log' = Append(log, ZeroItem(k))
  /\ UNCHANGED <<pos, calls, torn>>
  /\ UNCHANGED syncVars
  /\ UNCHANGED rangeVars
  /\ UNCHANGED <<iterVars, readVars>>

\* The scan goes on while every call so far was a Commit::decode that
\* returned a commit
ScanOpen == \A i \in 1 .. Len(calls) : calls[i].op = "Commit::decode" /\ calls[i].kind = "Some"

\* Commit::decode(&mut reader)
Decode ==
  /\ ScanOpen
  /\ LET r == Commit_decode(seg, pos) IN
       /\ calls' = Append(calls, [op |-> "Commit::decode", start |-> pos, kind |-> r.kind,
                                  err |-> r.err, commit |-> r.commit, hdr |-> NoHeader,
                                  end |-> r.pos])
       /\ pos' = r.pos
  /\ UNCHANGED <<log, seg, torn>>
  /\ UNCHANGED syncVars
  /\ UNCHANGED rangeVars
  /\ UNCHANGED <<iterVars, readVars>>

\* Header::decode(&mut reader)
DecodeHeader ==
  /\ ScanOpen
  /\ LET r == Header_decode(seg, pos) IN
       /\ calls' = Append(calls, [op |-> "Header::decode", start |-> pos, kind |-> r.kind,
                                  err |-> r.err, commit |-> NoCommit, hdr |-> r.hdr,
                                  end |-> r.pos])
       /\ pos' = r.pos
  /\ UNCHANGED <<log, seg, torn>>
  /\ UNCHANGED syncVars
  /\ UNCHANGED rangeVars
  /\ UNCHANGED <<iterVars, readVars>>

IterIdle == iter = [kind |-> "none", commit |-> NoCommit, de |-> "", next |-> 0, end |-> 0, cursor |-> 0, items |-> <<>>]

ReadIdle == rd = [kind |-> "none", src |-> <<>>, from |-> 0, want |-> 0, result |-> "", pos |-> 0]

Init == CodecInit /\ SyncIdle /\ RangeIdle /\ IterIdle /\ ReadIdle

Next ==
  \/ Writable /\ \E c \in Commits : Write(c)
  \/ Writable /\ \E k \in (LEN - 1) .. MaxFill : ZeroFill(k)
  \/ Decode
  \/ DecodeHeader

Spec == Init /\ [][Next]_vars

---------------------------------------------------------------------------
(* Corruption of one encoded commit *)

\* A commit whose records are the checksum of its own header with len = 0
SelfChecked(m, n) == Commit(m, n, to_le_bytes(crc32c(Header_bytes(m, n, 0)), U32Bytes))

FlipCommits ==
  {Commit(m, n, r) : m \in {0, 1, 7}, n \in {1, 3}, r \in SeqsUpTo(Byte, MaxLen + 1)}
    \cup {SelfChecked(m, n) : m \in {0, 1, 7}, n \in {1, 3}}

\* The masks that flip exactly one bit of a byte
OneBit == {2 ^ k : k \in 0 .. (ByteBits - 1)}

\* commit.write(&mut buf) into an empty buffer
WriteOne(c) ==
  /\ log = <<>>
  /\ Write(c)

\* buf[i] ^= x for a nonzero x (tests::bitflip; i counts from 1 here)
Corrupt(i, x) ==
  /\ Len(log) = 1
  /\ log[1].kind = "commit"
  /\ Writable
  /\ i \in 1 .. Len(seg)
  /\ x # 0
  /\ seg' = [seg EXCEPT ![i] = Xor(seg[i], x)]
  /\ torn' = [kind |-> "flip", commit |-> log[1].commit, at |-> i, mask |-> x]
  /\ UNCHANGED <<log, pos, calls>>
  /\ UNCHANGED syncVars
  /\ UNCHANGED rangeVars
  /\ UNCHANGED <<iterVars, readVars>>

NextFlip ==
  \/ Writable /\ \E c \in FlipCommits : WriteOne(c)
  \/ Writable /\ \E i \in 1 .. (FRAMING_LEN + U32Bytes), x \in Byte : Corrupt(i, x)
  \/ Decode

SpecFlip == Init /\ [][NextFlip]_vars

---------------------------------------------------------------------------
(* Crash recovery: an fsynced prefix of frames, then a torn tail *)

ValidCommits == {c \in Commits : Valid(c)}

\* The least offset whose header with n = 1 and len = 0 has checksum 0
ZeroCrcOffset == CHOOSE m \in 0 .. (U32Mod - 1) :
  /\ crc32c(Header_bytes(m, 1, 0)) = 0
  /\ \A k \in 0 .. (m - 1) : crc32c(Header_bytes(k, 1, 0)) # 0

\* The commits whose write a crash may interrupt
TornCommits ==
  {Commit(7, 3, r) : r \in SeqsUpTo(Byte, MaxLen)} \cup {NoCommit, Commit(ZeroCrcOffset, 1, <<1>>)}

\* Only frames were appended so far
OnlyFrames == \A i \in 1 .. Len(log) : log[i].kind = "commit"

\* A commit that was written and fsynced before the crash
WriteSynced(c) ==
  /\ OnlyFrames
  /\ Write(c)

\* The tail of zero fill of a pre-allocated segment
ZeroTail(k) ==
  /\ OnlyFrames
  /\ ZeroFill(k)

\* The crash interrupts the write of w: its first j bytes reached the
\* segment.  "truncated": the segment ends there.  "partial": the segment was
\* pre-allocated, and zero fill stands where the rest of the frame would be.
TornWrite(w, j, mode) ==
  /\ OnlyFrames
  /\ Writable
  /\ Len(seg) + encoded_len(w) <= MaxSegLen
  /\ j \in 1 .. (encoded_len(w) - 1)
  /\ seg' = seg \o SubSeq(Commit_write(w), 1, j)
                \o (IF mode = "partial" THEN Zeros(encoded_len(w) - j) ELSE <<>>)
  /\ torn' = [kind |-> mode, commit |-> w, at |-> j, mask |-> 0]
  /\ UNCHANGED <<log, pos, calls>>
  /\ UNCHANGED syncVars
  /\ UNCHANGED rangeVars
  /\ UNCHANGED <<iterVars, readVars>>

NextCrash ==
  \/ Writable /\ \E c \in ValidCommits : WriteSynced(c)
  \/ Writable /\ \E k \in 1 .. MaxFill : ZeroTail(k)
  \/ Writable /\ \E w \in TornCommits, j \in 1 .. (FRAMING_LEN + MaxLen),
                     mode \in {"truncated", "partial"} : TornWrite(w, j, mode)
  \/ Decode
  \/ DecodeHeader

SpecCrash == Init /\ [][NextCrash]_vars

---------------------------------------------------------------------------
\* The buffered async segment writer: tokio::io::BufWriter over
\* tokio::fs::File, as built by into_async_writer.

\* The capacity of the BufWriter's coalescing buffer (tokio's default is
\* 8 KiB), scaled
BufCap == 3

\* The most bytes a run hands to the writer
MaxAccepted == 5

\* The buffers handed to write_all
Chunks == {d \in SeqsUpTo({1, 2}, BufCap + 1) : d # <<>>}

\* The file after a write of d at cursor p: bytes at p .. p + |d| are
\* replaced, the file grows as needed, a gap past the old end reads as zero
FilePut(f, p, d) ==
  IF d = <<>> THEN f
  ELSE [i \in 1 .. (IF Len(f) >= p + Len(d) THEN Len(f) ELSE p + Len(d)) |->
          IF i > p /\ i <= p + Len(d) THEN d[i - p]
          ELSE IF i <= Len(f) THEN f[i] ELSE 0]

\* writer.write_all(data) on the BufWriter: a buffer that would overflow the
\* coalescing buffer flushes it to the file first; a buffer of at least the
\* capacity goes straight to the file, a smaller one is held in the buffer.
\* What goes to the file is written at its cursor, which advances.
BufWrite(data) ==
  /\ Len(accepted) + Len(data) <= MaxAccepted
  /\ LET spill == Len(bufw) + Len(data) > BufCap
         held == IF spill THEN <<>> ELSE bufw
         out == (IF spill THEN bufw ELSE <<>>) \o (IF Len(data) >= BufCap THEN data ELSE <<>>)
     IN /\ bufw' = (IF Len(data) >= BufCap THEN held ELSE held \o data)
        /\ file' = FilePut(file, cur, out)
        /\ cur' = cur + Len(out)
  /\ accepted' = accepted \o data
  /\ lastOp' = "write"
  /\ UNCHANGED <<disk, lenq, codecVars, rangeVars, iterVars, readVars>>

\* writer.flush() on the BufWriter: the coalescing buffer is handed to the file
Flush ==
  /\ file' = FilePut(file, cur, bufw)
  /\ cur' = cur + Len(bufw)
  /\ bufw' = <<>>
  /\ lastOp' = "flush"
  /\ UNCHANGED <<disk, lenq, accepted, codecVars, rangeVars, iterVars, readVars>>

\* AsyncFsync::fsync on the BufWriter: self.get_ref().fsync(), which is
\* File::sync_data on the inner file; the coalescing buffer is not touched
Fsync ==
  /\ disk' = file
  /\ lastOp' = "fsync"
  /\ UNCHANGED <<bufw, file, accepted, cur, lenq, codecVars, rangeVars, iterVars, readVars>>

NextSync ==
  \/ \E d \in Chunks : BufWrite(d)
  \/ Flush
  \/ Fsync

SpecSync == Init /\ [][NextSync]_vars

---------------------------------------------------------------------------
\* AsyncLen: segment_len on the file-backed segment

\* The cursor positions a seek goes to
MaxSeek == 4

\* AsyncLen for tokio::fs::File, with every seek succeeding: old_pos is the
\* stream position, len the position after seek(End(0)); the cursor is
\* moved back to old_pos unless it was at the end already
File_segment_len_NoRestore(f, p) == [old_pos |-> p, len |-> Len(f), cur |-> Len(f)]

File_segment_len(f, p) ==
  LET old_pos == p
      len == Len(f)
  IN [old_pos |-> old_pos, len |-> len, cur |-> IF old_pos # len THEN old_pos ELSE len]

\* writer.seek(SeekFrom::Start(p)) on the BufWriter: the coalescing buffer
\* is flushed, then the file's cursor moves
Seek(p) ==
  /\ file' = FilePut(file, cur, bufw)
  /\ bufw' = <<>>
  /\ cur' = p
  /\ lastOp' = "seek"
  /\ UNCHANGED <<disk, lenq, accepted, codecVars, rangeVars, iterVars, readVars>>

\* AsyncLen for BufWriter<T>: self.get_mut().segment_len(), the length
\* query of the inner file; the coalescing buffer is not touched
SegmentLen ==
  /\ LET r == File_segment_len(file, cur) IN
       /\ lenq' = [old_pos |-> r.old_pos, len |-> r.len]
       /\ cur' = r.cur
  /\ lastOp' = "segment_len"
  /\ UNCHANGED <<bufw, file, disk, accepted, codecVars, rangeVars, iterVars, readVars>>

\* The buffers written while the length is polled
LenChunks == {d \in Chunks : \A i \in 1 .. Len(d) : d[i] = 1}

NextLen ==
  \/ \E d \in LenChunks : BufWrite(d)
  \/ Flush
  \/ \E p \in 0 .. MaxSeek : Seek(p)
  \/ SegmentLen

SpecLen == Init /\ [][NextLen]_vars

---------------------------------------------------------------------------
\* RangeFromMaybeToInclusive

\* std::ops::Bound<u64>
Unbounded == [kind |-> "Unbounded", val |-> 0]

Included(v) == [kind |-> "Included", val |-> v]

Excluded(v) == [kind |-> "Excluded", val |-> v]

\* Option<u64>
None == [some |-> FALSE, val |-> 0]

Some(v) == [some |-> TRUE, val |-> v]

max(a, b) == IF a >= b THEN a ELSE b

saturating_sub(a, b) == IF a >= b THEN a - b ELSE 0

\* The u64 values the bounds are drawn from
RangeValues == {0, 1, 3, 5, 9, 10, 100, U64Max - 1, U64Max}

Bounds == {Unbounded} \cup {Included(v) : v \in RangeValues} \cup {Excluded(v) : v \in RangeValues}

\* A call that panicked returned no range
Panicked == [kind |-> "panic", start |-> 0, end |-> None]

\* start + 1 on u64: beyond u64::MAX the addition panics in a build with
\* overflow checks and wraps in a build without them
start_plus_1(start) ==
  IF start + 1 <= U64Max
    THEN {[kind |-> "Ok", val |-> start + 1]}
    ELSE {[kind |-> "panic", val |-> 0], [kind |-> "Ok", val |-> (start + 1) % U64Mod]}

\* RangeFromMaybeToInclusive::from_range_bounds: the outcomes of the call
from_range_bounds(b) ==
  LET starts ==
        CASE b.start.kind = "Unbounded" -> {[kind |-> "Ok", val |-> 0]}
          [] b.start.kind = "Included" -> {[kind |-> "Ok", val |-> b.start.val]}
          [] b.start.kind = "Excluded" -> start_plus_1(b.start.val)
      end(start) ==
        CASE b.end.kind = "Unbounded" -> None
          [] b.end.kind = "Included" -> Some(max(b.end.val, start))
          [] b.end.kind = "Excluded" -> Some(max(saturating_sub(b.end.val, 1), start))
  IN {IF st.kind = "panic" THEN Panicked
      ELSE [kind |-> "Ok", start |-> st.val, end |-> end(st.val)] : st \in starts}

\* RangeFromMaybeToInclusive::is_empty
is_empty(r) == r.end.some /\ r.end.val <= r.start

\* RangeFromMaybeToInclusive::contains
contains(r, item) ==
  /\ item >= r.start
  /\ IF r.end.some THEN item <= r.end.val ELSE TRUE

\* RangeFromMaybeToInclusive::from_range_bounds(b)
FromRangeBounds(b) ==
  /\ rb' = [start |-> b[1], end |-> b[2]]
  /\ range' \in from_range_bounds(rb')
  /\ UNCHANGED <<codecVars, syncVars, iterVars, readVars>>

NextRange == \E b \in Bounds \X Bounds : FromRangeBounds(b)

SpecRange == Init /\ [][NextRange]_vars

---------------------------------------------------------------------------
\* Commit::into_transactions

\* The most records a commit of the iteration holds or announces
MaxRecs == 3

\* Bytes one record takes with the decoders tried
RecLen == 4

\* The first byte of a record the checking decoder rejects
BadTag == 3

\* Decoder::decode_record(version, offset, &mut cursor) on the cursor over
\* recs at position p, for the decoders tried.  "Fixed" takes RecLen bytes
\* and returns them; "Checked" does the same and rejects, after reading it, a
\* record that starts with BadTag.  Both fail, reading nothing, when fewer
\* than RecLen bytes are left.  What the decoder read stays read: the cursor
\* keeps its position between calls.
decode_record(de, offset, recs, p) ==
  IF p + RecLen > Len(recs)
    THEN [kind |-> "Err", txdata |-> <<>>, pos |-> p]
    ELSE LET bytes == SubSeq(recs, p + 1, p + RecLen) IN
         IF de = "Checked" /\ bytes[1] = BadTag
           THEN [kind |-> "Err", txdata |-> <<>>, pos |-> p + RecLen]
           ELSE [kind |-> "Ok", txdata |-> bytes, pos |-> p + RecLen]

Decoders == {"Fixed", "Checked"}

\* The records of the commits iterated
Records == {<<0, 0, 0, 1>>, <<0, 0, 0, 2>>, <<0, 0, 0, 3>>, <<BadTag, 0, 0, 0>>}

RECURSIVE Concat(_)
Concat(ss) == IF ss = <<>> THEN <<>> ELSE Head(ss) \o Concat(Tail(ss))

RecordBufs == {Concat(rs) : rs \in SeqsUpTo(Records, MaxRecs)}

IterOffsets == {0, 7, U64Max - 1, U64Max}

IterCommits == {Commit(m, n, r) : m \in IterOffsets, n \in 0 .. MaxRecs, r \in RecordBufs}

\* self.min_tx_offset + self.n as u64: beyond u64::MAX the addition panics
\* in a build with overflow checks and wraps in a build without them
tx_range_end(c) ==
  IF c.min_tx_offset + c.n <= U64Max
    THEN {[kind |-> "Ok", val |-> c.min_tx_offset + c.n]}
    ELSE {[kind |-> "panic", val |-> 0], [kind |-> "Ok", val |-> (c.min_tx_offset + c.n) % U64Mod]}

\* Commit::into_transactions(version, de): the iterator it returns, a scan
\* over min_tx_offset .. min_tx_offset + n with the cursor over records as
\* its state (or the panic of the addition)
into_transactions(c, de) ==
  {IF e.kind = "panic"
     THEN [kind |-> "panic", commit |-> c, de |-> de, next |-> 0, end |-> 0,
           cursor |-> 0, items |-> <<>>]
     ELSE [kind |-> "iter", commit |-> c, de |-> de, next |-> c.min_tx_offset, end |-> e.val,
           cursor |-> 0, items |-> <<>>] : e \in tx_range_end(c)}

\* One step of the scan that builds a new cursor for every record
scan_step_FreshCursor(it) ==
  LET offset == it.next
      tx == decode_record(it.de, offset, it.commit.records, 0)
  IN [it EXCEPT !.next = offset + 1,
                !.cursor = tx.pos,
                !.items = Append(@, [kind |-> tx.kind, offset |-> offset, txdata |-> tx.txdata,
                                     from |-> 0, to |-> tx.pos])]

\* One step of the scan: the closure is called with the next offset of the
\* range and the cursor; its item is Ok(Transaction { offset, txdata }) or
\* the decoder's error, and the closure always returns Some(item)
scan_step(it) ==
  LET offset == it.next
      tx == decode_record(it.de, offset, it.commit.records, it.cursor)
  IN [it EXCEPT !.next = offset + 1,
                !.cursor = tx.pos,
                !.items = Append(@, [kind |-> tx.kind, offset |-> offset, txdata |-> tx.txdata,
                                     from |-> it.cursor, to |-> tx.pos])]

\* The range of offsets is used up: Iterator::next returns None
Exhausted == iter.kind = "iter" /\ iter.next >= iter.end

\* commit.into_transactions(version, de)
IntoTransactions(c, de) ==
  /\ iter.kind = "none"
  /\ iter' \in into_transactions(c, de)
  /\ UNCHANGED <<codecVars, syncVars, rangeVars, readVars>>

\* Iterator::next on the iterator, while the range has offsets left
IterNext ==
  /\ iter.kind = "iter"
  /\ ~Exhausted
  /\ iter' = scan_step(iter)
  /\ UNCHANGED <<codecVars, syncVars, rangeVars, readVars>>

NextIter ==
  \/ \E c \in IterCommits, de \in Decoders : IntoTransactions(c, de)
  \/ IterNext

SpecIter == Init /\ [][NextIter]_vars

---------------------------------------------------------------------------
\* stream::common::read_exact

\* The most bytes a source of the helper holds
MaxSrc == 4

\* The longest buffer the helper is asked to fill
MaxBuf == 4

\* read_exact(src, buf) of stream/common.rs on a source over s at position
\* p, for a buffer of k bytes: AsyncReadExt::read_exact fills the buffer or
\* fails with UnexpectedEof at EOF, whatever it had read by then; that error
\* kind becomes Ok(DidReadExact::Eof), any other error is passed on
stream_read_exact(s, p, k) ==
  LET r == read_exact(s, p, k) IN
  IF r.kind = "Ok" THEN [kind |-> "All", pos |-> r.pos]
  ELSE IF r.kind = "UnexpectedEof" THEN [kind |-> "Eof", pos |-> r.pos]
  ELSE [kind |-> "Err", pos |-> r.pos]

Sources == SeqsUpTo({1, 2}, MaxSrc)

\* A reader is opened over the bytes s
OpenSource(s) ==
  /\ rd.kind = "none"
  /\ rd' = [kind |-> "open", src |-> s, from |-> 0, want |-> 0, result |-> "", pos |-> 0]
  /\ UNCHANGED <<codecVars, syncVars, rangeVars, iterVars>>

\* read_exact(&mut src, &mut buf) with buf.len() = k
ReadExact(k) ==
  /\ rd.kind # "none"
  /\ LET r == stream_read_exact(rd.src, rd.pos, k) IN
       rd' = [kind |-> "read", src |-> rd.src, from |-> rd.pos, want |-> k,
              result |-> r.kind, pos |-> r.pos]
  /\ UNCHANGED <<codecVars, syncVars, rangeVars, iterVars>>

NextRead ==
  \/ \E s \in Sources : OpenSource(s)
  \/ \E k \in 0 .. MaxBuf : ReadExact(k)

SpecRead == Init /\ [][NextRead]_vars

---------------------------------------------------------------------------
\* Metadata, and commits whose records outgrow the len field

\* Metadata::from(commit): tx_range and size_in_bytes (or the panic of the
\* addition in tx_range)
Metadata_from(c) ==
  {IF e.kind = "panic"
     THEN [kind |-> "panic", tx_range |-> [start |-> 0, end |-> 0], size_in_bytes |-> 0]
     ELSE [kind |-> "Ok", tx_range |-> [start |-> c.min_tx_offset, end |-> e.val],
           size_in_bytes |-> encoded_len(c) % U64Mod] : e \in tx_range_end(c)}

\* Records lengths around the range of the u32 len field
WideLens == {0, 1, U32Mod - 1, U32Mod, U32Mod + 1}

WideCommits ==
  {Commit(m, n, [i \in 1 .. k |-> b]) : m \in Offsets, n \in {1, 3}, k \in WideLens, b \in Byte}

\* commit.write(&mut buf) into an empty buffer that takes whatever is written
WriteWide(c) ==
  /\ log = <<>>
  /\ Writable
  /\ seg' = seg \o Commit_write(c)
  /\ log' = Append(log, CommitItem(c))
  /\ UNCHANGED <<pos, calls, torn>>
  /\ UNCHANGED <<syncVars, rangeVars, iterVars, readVars>>

NextWide ==
  \/ \E c \in WideCommits : WriteWide(c)
  \/ Decode

SpecWide == Init /\ [][NextWide]_vars

---------------------------------------------------------------------------
(* Properties *)

\* The segment holds exactly the frame of one commit
OneFrame == Len(log) = 1 /\ log[1].kind = "commit" /\ torn.kind = "none"

\* The reader's first call was Commit::decode
Decoded == calls # <<>> /\ calls[1].op = "Commit::decode"

\* C1: round trip.  When one valid commit C was written into an empty
\* buffer, Commit::decode on that buffer returns Some(C'), C' equal to C in
\* min_tx_offset, n and records, and has consumed the whole buffer.
C1_RoundTrip ==
  (OneFrame /\ Valid(log[1].commit) /\ Decoded) =>
    /\ calls[1].kind = "Some"
    /\ calls[1].commit.min_tx_offset = log[1].commit.min_tx_offset
    /\ calls[1].commit.n = log[1].commit.n
    /\ calls[1].commit.records = log[1].commit.records
    /\ calls[1].end = Len(seg)

C1_Witness ==
  /\ OneFrame
  /\ Decoded
  /\ Valid(log[1].commit)
  /\ log[1].commit.min_tx_offset = 7
  /\ log[1].commit.records # <<>>
  /\ calls[1].kind = "Some"

\* The flip that was applied hit exactly one bit
OneBitFlip == torn.kind = "flip" /\ torn.mask \in OneBit

\* C2: corruption is never silent.  After one bit of the frame of a valid
\* commit was flipped, Commit::decode returns an error: neither a commit
\* nor None.
C2_FlipIsError ==
  (OneBitFlip /\ Valid(torn.commit) /\ Decoded) => calls[1].kind = "Err"

\* C3: corruption is a checksum mismatch.  After one byte of the frame of a
\* valid commit was XORed with a nonzero byte, Commit::decode returns the
\* error ChecksumMismatch (of kind InvalidData).
C3_FlipIsChecksumMismatch ==
  (torn.kind = "flip" /\ Valid(torn.commit) /\ Decoded) =>
    (calls[1].kind = "Err" /\ calls[1].err = "ChecksumMismatch")

\* The LEN bytes at the start of call i are there and are all zero
ZeroHeaderAt(i) ==
  /\ calls[i].start + LEN <= Len(seg)
  /\ \A j \in 1 .. LEN : seg[calls[i].start + j] = 0

\* C4: pre-allocation ends the scan.  A call of Header::decode or of
\* Commit::decode that finds LEN zero bytes returns None and has consumed
\* those LEN bytes and nothing after them, whatever follows.
C4_ZeroHeaderIsNone ==
  \A i \in 1 .. Len(calls) :
    ZeroHeaderAt(i) => (calls[i].kind = "None" /\ calls[i].end = calls[i].start + LEN)

C4_Witness ==
  \E i \in 1 .. Len(calls) :
    /\ calls[i].op = "Commit::decode"
    /\ ZeroHeaderAt(i)
    /\ Len(seg) >= calls[i].start + LEN + U32Bytes
    /\ \E j \in (calls[i].start + LEN + 1) .. Len(seg) : seg[j] # 0
    /\ calls[i].kind = "None"

\* The segment holds the frames of k valid commits and then at least LEN
\* bytes of zero fill
Stream(k) ==
  /\ Len(log) = k + 1
  /\ torn.kind = "none"
  /\ \A i \in 1 .. k : log[i].kind = "commit" /\ Valid(log[i].commit)
  /\ log[k + 1].kind = "zeros"
  /\ log[k + 1].zeros >= LEN

\* Where frame i of the log starts in the segment
RECURSIVE FrameStart(_)
FrameStart(i) ==
  IF i <= 1 THEN 0
  ELSE FrameStart(i - 1)
         + (IF log[i - 1].kind = "commit" THEN encoded_len(log[i - 1].commit)
            ELSE log[i - 1].zeros)

\* C5: streaming decode.  Over the frames of k valid commits followed by
\* zero fill, call i of Commit::decode (i <= k) starts at the first byte of
\* frame i, returns that commit and leaves the reader at the first byte of
\* the next frame; call k + 1 returns None.
C5_Streaming ==
  \A k \in 0 .. Len(log) :
    (Stream(k) /\ \A i \in 1 .. Len(calls) : calls[i].op = "Commit::decode") =>
      \A i \in 1 .. Len(calls) :
        /\ i <= k + 1
        /\ calls[i].start = FrameStart(i)
        /\ i <= k => /\ calls[i].kind = "Some"
                     /\ calls[i].commit = log[i].commit
                     /\ calls[i].end = FrameStart(i + 1)
        /\ i = k + 1 => calls[i].kind = "None"

C5_Witness ==
  /\ Stream(2)
  /\ log[1].commit # log[2].commit
  /\ log[1].commit.records # <<>>
  /\ Len(calls) = 3
  /\ calls[1].kind = "Some"
  /\ calls[2].kind = "Some"
  /\ calls[2].commit = log[2].commit
  /\ calls[3].op = "Commit::decode"
  /\ calls[3].kind = "None"

\* The bytes the reader had left when call i started
Avail(i) == Len(seg) - calls[i].start

Synced == IF log # <<>> /\ log[Len(log)].kind = "zeros" THEN Len(log) - 1 ELSE Len(log)

\* The segment is an fsynced prefix of frames of valid commits and a torn
\* tail: zero fill, a truncated frame or a partially written frame
TornTail ==
  /\ \A i \in 1 .. Synced : log[i].kind = "commit" /\ Valid(log[i].commit)
  /\ \/ torn.kind \in {"truncated", "partial"}
     \/ torn.kind = "none" /\ Synced < Len(log)

Scan == \A i \in 1 .. Len(calls) : calls[i].op = "Commit::decode"

\* Call i returned the commit of frame i of the log, unchanged
ReturnsSynced(i) ==
  /\ calls[i].start = FrameStart(i)
  /\ calls[i].kind = "Some"
  /\ calls[i].commit = log[i].commit
  /\ calls[i].end = FrameStart(i + 1)

\* C8 as claimed: over an fsynced prefix and a torn tail the scan returns
\* the commits of the prefix in order, and its next call ends it with None
\* or an error, never with a commit.
C8_TornTailNeverDecodes ==
  (TornTail /\ Scan) =>
    \A i \in 1 .. Len(calls) :
      /\ i <= Synced => ReturnsSynced(i)
      /\ i > Synced => (i = Synced + 1 /\ calls[i].kind # "Some")

\* The bytes call i consumed are the frame of the commit it returned
ConsumedFrame(i) ==
  SubSeq(seg, calls[i].start + 1, calls[i].end) = Commit_write(calls[i].commit)

\* C8 amended: the commits of the prefix are returned unchanged and in
\* order; over zero fill or a truncated frame the next call returns None or
\* an error; over a partially written frame it returns None, an error, or a
\* commit whose whole frame, checksum included, stands in the segment (what
\* reached the segment and the zero fill after it), and the call after that
\* returns None.
C8_CrashRecovery ==
  (TornTail /\ Scan) =>
    \A i \in 1 .. Len(calls) :
      /\ i <= Synced => ReturnsSynced(i)
      /\ i = Synced + 1 =>
           \/ calls[i].kind # "Some"
           \/ torn.kind = "partial" /\ ConsumedFrame(i)
      /\ i > Synced + 1 => (i = Synced + 2 /\ calls[i].kind = "None")

C8_Witness ==
  /\ TornTail
  /\ Scan
  /\ Synced = 2
  /\ torn.kind = "partial"
  /\ torn.at > LEN
  /\ Len(calls) = 3
  /\ ReturnsSynced(1)
  /\ ReturnsSynced(2)
  /\ calls[3].kind = "Err"
  /\ calls[3].err = "ChecksumMismatch"

\* C7 as claimed: after a completed fsync() on the buffered writer every
\* byte the writer had accepted is on stable storage, the bytes still in its
\* coalescing buffer included.
C7_FsyncIsDurable == lastOp = "fsync" => disk = accepted

\* C9 as claimed: a range built by from_range_bounds is empty exactly when
\* no u64 is contained in it.
C9_EmptyIffNothingContained ==
  range.kind = "Ok" => (is_empty(range) <=> ~ \E x \in 0 .. U64Max : contains(range, x))

\* The start and the end the claim gives for a pair of bounds
NormalStart(b) ==
  CASE b.kind = "Unbounded" -> 0
    [] b.kind = "Included" -> b.val
    [] b.kind = "Excluded" -> b.val + 1

NormalEnd(b, start) ==
  CASE b.kind = "Unbounded" -> None
    [] b.kind = "Included" -> Some(max(b.val, start))
    [] b.kind = "Excluded" -> Some(max(saturating_sub(b.val, 1), start))

\* C10 as claimed: for every pair of bounds from_range_bounds returns the
\* range with start 0, s or s + 1 (for every s, u64::MAX included) and end
\* None, max(e, start) or max(e - 1 saturating at 0, start); 5..=3 is empty,
\* 5.. contains 5, 100 and u64::MAX, and ..10 has start 0 and end 9.
C10_Normalisation ==
  range.kind # "none" =>
    /\ range.kind = "Ok"
    /\ range.start = NormalStart(rb.start)
    /\ range.end = NormalEnd(rb.end, range.start)
    /\ (rb.start = Included(5) /\ rb.end = Included(3)) => is_empty(range)
    /\ (rb.start = Included(5) /\ rb.end = Unbounded) =>
         contains(range, 5) /\ contains(range, 100) /\ contains(range, U64Max)
    /\ (rb.start = Unbounded /\ rb.end = Excluded(10)) =>
         range.start = 0 /\ range.end = Some(9)

\* C11: segment_len leaves the cursor where it was.  After a segment_len()
\* on the file-backed writer, whatever the cursor position (before, at or
\* past the end of the file), the call has returned the length of the file
\* and the cursor is at the position it had before the call.
C11_SegmentLenRestoresCursor ==
  lastOp = "segment_len" => (lenq.len = Len(file) /\ cur = lenq.old_pos)

C11_Witness ==
  /\ lastOp = "segment_len"
  /\ bufw # <<>>
  /\ file # <<>>
  /\ cur < Len(file)
  /\ cur > 0
  /\ lenq.len = Len(file)

\* C12 as claimed: into_transactions yields exactly n items, and item k
\* (from 0) carries offset min_tx_offset + k, for every min_tx_offset and n,
\* also when min_tx_offset + n exceeds the u64 range.
C12_YieldsNAscendingOffsets ==
  iter.kind # "none" =>
    /\ iter.kind = "iter"
    /\ \A k \in 1 .. Len(iter.items) : iter.items[k].offset = iter.commit.min_tx_offset + (k - 1)
    /\ Len(iter.items) <= iter.commit.n
    /\ Exhausted => Len(iter.items) = iter.commit.n

\* C13 as claimed: after an item that is a decoder error the iterator yields
\* no successfully decoded transaction, and the items yielded before it stay
\* as they were.
C13_NoOkAfterErr ==
  iter.kind = "iter" =>
    \A i \in 1 .. Len(iter.items) : \A j \in (i + 1) .. Len(iter.items) :
      iter.items[i].kind = "Err" => iter.items[j].kind # "Ok"

\* C19: cursor sharing.  Decoder call k + 1 starts reading where call k
\* stopped, the first at byte 0; with the decoder that takes RecLen bytes per
\* record, item k (from 0) of a commit that holds its records is bytes
\* RecLen * k .. RecLen * k + RecLen of records, with offset min_tx_offset + k.
C19_CursorShared ==
  iter.kind = "iter" =>
    \A k \in 1 .. Len(iter.items) :
      /\ iter.items[k].from = (IF k = 1 THEN 0 ELSE iter.items[k - 1].to)
      /\ (iter.de = "Fixed" /\ RecLen * k <= Len(iter.commit.records)) =>
           /\ iter.items[k].kind = "Ok"
           /\ iter.items[k].txdata = SubSeq(iter.commit.records, RecLen * (k - 1) + 1, RecLen * k)
           /\ iter.items[k].offset = iter.commit.min_tx_offset + (k - 1)

\* Scenario S5: the commit {7, 3, [0,0,0,1, 0,0,0,2, 0,0,0,3]} yields offsets
\* 7, 8, 9 with values 1, 2, 3
C19_Witness ==
  /\ Exhausted
  /\ iter.de = "Fixed"
  /\ iter.commit = Commit(7, 3, <<0, 0, 0, 1, 0, 0, 0, 2, 0, 0, 0, 3>>)
  /\ Len(iter.items) = 3
  /\ \A k \in 1 .. 3 :
       /\ iter.items[k].kind = "Ok"
       /\ iter.items[k].offset = 6 + k
       /\ iter.items[k].txdata = <<0, 0, 0, k>>

\* C14 as claimed: read_exact returns Eof only when the source had no byte
\* left; when it had at least one byte but fewer than buf.len() it returns
\* an error, not Eof; when it had buf.len() bytes it returns All.
C14_EofOnlyWhenNothingRead ==
  rd.kind = "read" =>
    LET avail == Len(rd.src) - rd.from IN
    /\ rd.result = "Eof" => avail = 0
    /\ (avail > 0 /\ avail < rd.want) => rd.result = "Err"
    /\ avail >= rd.want => rd.result = "All"

\* C15 as claimed: Commit::write refuses a commit with n = 0, so the
\* segment never holds the frame of such a commit, nor a frame whose header
\* is all zero.
C15_EmptyCommitRefused ==
  \A i \in 1 .. Len(log) :
    log[i].kind = "commit" =>
      /\ log[i].commit.n >= 1
      /\ SubSeq(seg, FrameStart(i) + 1, FrameStart(i) + LEN) # Zeros(LEN)

\* The segment is as it was written (commits and zero fill, nothing torn)
AsWritten == torn.kind = "none"

\* The bytes from byte a (counted from 0) up to byte b of frame i
FrameBytes(i, a, b) == SubSeq(seg, FrameStart(i) + a + 1, FrameStart(i) + b)

\* C16: encoded length.  encoded_len(C) is 14 + 4 + |C.records|; every
\* Commit::write has appended exactly that many bytes to the sink: the 14
\* header bytes, the records, 4 checksum bytes; and Metadata::from(C) gives
\* the same number as size_in_bytes.  This holds whatever the length of the
\* records, also when it is beyond the range of the len field.
C16_EncodedLen ==
  AsWritten =>
    /\ Len(seg) = FrameStart(Len(log) + 1)
    /\ \A i \in 1 .. Len(log) :
         log[i].kind = "commit" =>
           LET c == log[i].commit
               frame == FrameBytes(i, 0, LEN + Len(c.records) + U32Bytes)
           IN
           /\ encoded_len(c) = U64Bytes + U16Bytes + U32Bytes + U32Bytes + Len(c.records)
           /\ FrameBytes(i, LEN, LEN + Len(c.records)) = c.records
           /\ frame = Commit_write(c)
           /\ \A md \in Metadata_from(c) : md.kind = "Ok" => md.size_in_bytes = Len(frame)

C16_Witness ==
  /\ AsWritten
  /\ OneFrame
  /\ Len(log[1].commit.records) = U32Mod + 1
  /\ Len(seg) = FRAMING_LEN + U32Mod + 1
  /\ SubSeq(seg, LEN + 1, LEN + U32Mod + 1) = log[1].commit.records

\* C17 as claimed: in the frame Commit::write emits, the len field (bytes
\* 10..14) is the number of payload bytes between the header and the
\* checksum, for every records length, also one that does not fit the field.
C17_LenFieldExact ==
  (OneFrame /\ AsWritten) =>
    from_le_bytes(SubSeq(seg, U64Bytes + U16Bytes + 1, LEN)) = Len(seg) - FRAMING_LEN

\* The len field of the header call i read
HeaderLenAt(i) ==
  from_le_bytes(SubSeq(seg, calls[i].start + U64Bytes + U16Bytes + 1, calls[i].start + LEN))

\* Call i read a whole header that is not all zero, and the reader ends
\* before the records and the checksum it announces
CutShort(i) ==
  /\ calls[i].op = "Commit::decode"
  /\ Avail(i) >= LEN
  /\ ~ZeroHeaderAt(i)
  /\ Avail(i) < LEN + HeaderLenAt(i) + U32Bytes

\* C18: a truncated payload or checksum is a hard error.  A Commit::decode
\* that read a non-zero header and met EOF before len payload bytes and the
\* 4 checksum bytes returns the error UnexpectedEof: not None, not a commit,
\* not ChecksumMismatch; the reader is left at EOF.
C18_TruncationIsUnexpectedEof ==
  \A i \in 1 .. Len(calls) :
    CutShort(i) =>
      /\ calls[i].kind = "Err"
      /\ calls[i].err = "UnexpectedEof"
      /\ calls[i].end = Len(seg)

C18_Witness ==
  /\ torn.kind = "truncated"
  /\ Len(log) = 1
  /\ Len(calls) = 2
  /\ calls[1].kind = "Some"
  /\ CutShort(2)
  /\ Avail(2) >= LEN + HeaderLenAt(2)
  /\ HeaderLenAt(2) > 0
  /\ calls[2].err = "UnexpectedEof"

=============================================================================
